---- MODULE Spec2Model ----
(* Model of scripts/validate-with-pyiceberg.py: one run of main(), which   *)
(* checks sys.argv and calls validate_iceberg_table once.  Every print of  *)
(* the script is recorded as a Finding whose severity is the marker the    *)
(* script prints with it (the cross mark is ERROR, the warning sign is     *)
(* WARNING, everything else INFO) and whose category is the section of the *)
(* script that printed it.                                                 *)
EXTENDS Integers, Sequences, FiniteSets, TLC

\* ---------------------------------------------------------------- bounds
MaxArgc == 4
MaxFormatVersion == 3
MaxFields == 2
MaxFieldId == 2
MaxSnapshots == 2
MaxRows == 2

None == 0

FieldIdValues == {0 - 1} \cup (0 .. MaxFieldId)

RECURSIVE SeqsUpTo(_, _)
SeqsUpTo(S, n) ==
    IF n = 0 THEN {<<>>}
    ELSE LET shorter == SeqsUpTo(S, n - 1)
         IN  shorter \cup {Append(s, x) : s \in {t \in shorter : Len(t) = n - 1}, x \in S}

\* The first exception the libraries raise in a run, if any: the run ends at
\* the first exception, so later ones cannot be observed.
Faults == {"none", "catalog:ModuleNotFoundError", "catalog:Exception",
           "table:NoSuchTableError", "table:Exception",
           "scan:ModuleNotFoundError", "scan:Exception"}

VARIABLES
    argc,               \* len(sys.argv)
    warehouse_exists,   \* os.path.exists(warehouse_path)
    fault,              \* what the libraries raise in this run
    format_version,     \* table.metadata.format_version
    fields,             \* field_id of each of schema.fields, in order
    snapshots,          \* number of table.metadata.snapshots, ids 1..snapshots
    current_snapshot_id,\* table.metadata.current_snapshot_id, None when unset
    rows,               \* len(df) if the scan decodes
    pc,                 \* position in the script
    findings,           \* everything printed so far, in order
    idx,                \* position of the loop over schema.fields
    field_id_issues,    \* the local of that name
    success,            \* return value of validate_iceberg_table, FALSE until it returns
    exit_status,        \* argument of sys.exit, -1 while running
    banner,             \* the RESULT line printed by main
    validateCalls,      \* calls of validate_iceberg_table
    resolveCalls,       \* calls of load_catalog
    scanCalls           \* calls of table.scan

inputs == <<argc, warehouse_exists, fault, format_version, fields, snapshots,
            current_snapshot_id, rows>>
vars == <<argc, warehouse_exists, fault, format_version, fields, snapshots,
          current_snapshot_id, rows, pc, findings, idx, field_id_issues,
          success, exit_status, banner, validateCalls, resolveCalls, scanCalls>>

\* ------------------------------------------------------------- findings
Finding(sev, cat, kind, ref) == [sev |-> sev, cat |-> cat, kind |-> kind, ref |-> ref]

\* print: output is only ever added at the end
Emit_Prepend(fs, new) == new \o fs
Emit(fs, new) == fs \o new

\* line 66
InvalidFieldId_Negative(field_id) == field_id < 0
InvalidFieldId_OffByOne(field_id) == field_id <= 1
InvalidFieldId(field_id) == field_id <= 0

\* line 54
FormatVersionMismatch(v) == v # 2

\* line 133
WrongArgCount_AtLeast(n) == n < 3
WrongArgCount(n) == n # 3

\* line 162
ExitStatus(ok) == IF ok THEN 0 ELSE 1

\* lines 156-159
Banner(ok) == IF ok THEN "PASSED" ELSE "FAILED"

\* line 86: current_snapshot() looks the id up in the snapshots
current_snapshot == IF current_snapshot_id \in 1 .. snapshots THEN current_snapshot_id ELSE None

\* lines 118-130: the except clauses; each prints one error and returns False
ExceptHandler(exc, stage) ==
    Finding("ERROR", stage,
            CASE exc = "NoSuchTableError" -> "TableNotFound"
              [] exc = "ModuleNotFoundError" -> "MissingModule"
              [] OTHER -> "ValidationFailed",
            0)

Init ==
    /\ argc \in 1 .. MaxArgc
    /\ warehouse_exists \in BOOLEAN
    /\ fault \in Faults
    /\ format_version \in 1 .. MaxFormatVersion
    /\ fields \in SeqsUpTo(FieldIdValues, MaxFields)
    /\ snapshots \in 0 .. MaxSnapshots
    /\ current_snapshot_id \in {None} \cup (1 .. snapshots)
    /\ rows \in 0 .. MaxRows
    /\ pc = "main"
    /\ findings = <<>>
    /\ idx = 1
    /\ field_id_issues = FALSE
    /\ success = FALSE
    /\ exit_status = 0 - 1
    /\ banner = "none"
    /\ validateCalls = 0
    /\ resolveCalls = 0
    /\ scanCalls = 0

\* ----------------------------------------------------------------- main
\* lines 133-139
UsageExit ==
    /\ pc = "main"
    /\ WrongArgCount(argc)
    /\ pc' = "exited"
    /\ exit_status' = 1
    /\ UNCHANGED <<inputs, findings, idx, field_id_issues, success, banner,
                   validateCalls, resolveCalls, scanCalls>>

\* lines 141-152
CallValidate ==
    /\ pc = "main"
    /\ ~WrongArgCount(argc)
    /\ pc' = "validate"
    /\ validateCalls' = validateCalls + 1
    /\ UNCHANGED <<inputs, findings, idx, field_id_issues, success, banner,
                   exit_status, resolveCalls, scanCalls>>

\* lines 154-162
MainFinish ==
    /\ pc = "returned"
    /\ banner' = Banner(success)
    /\ exit_status' = ExitStatus(success)
    /\ pc' = "exited"
    /\ UNCHANGED <<inputs, findings, idx, field_id_issues, success,
                   validateCalls, resolveCalls, scanCalls>>

\* ------------------------------------------------ validate_iceberg_table
\* return <value>
Return(value) ==
    /\ success' = value
    /\ pc' = "returned"

\* an exception reaches the except clauses
Raise(exc, stage) ==
    /\ findings' = Emit(findings, <<ExceptHandler(exc, stage)>>)
    /\ Return(FALSE)

\* lines 32-34
CheckWarehouse_Continue ==
    /\ pc = "validate"
    /\ IF ~warehouse_exists
       THEN /\ findings' = Emit(findings, <<Finding("ERROR", "metadata", "WarehouseMissing", 0)>>)
            /\ pc' = "load_catalog"
            /\ success' = success
       ELSE /\ pc' = "load_catalog"
            /\ UNCHANGED <<findings, success>>
    /\ UNCHANGED <<inputs, idx, field_id_issues, exit_status, banner,
                   validateCalls, resolveCalls, scanCalls>>
CheckWarehouse ==
    /\ pc = "validate"
    /\ IF ~warehouse_exists
       THEN /\ findings' = Emit(findings, <<Finding("ERROR", "metadata", "WarehouseMissing", 0)>>)
            /\ Return(FALSE)
       ELSE /\ pc' = "load_catalog"
            /\ UNCHANGED <<findings, success>>
    /\ UNCHANGED <<inputs, idx, field_id_issues, exit_status, banner,
                   validateCalls, resolveCalls, scanCalls>>

\* lines 37-43
LoadCatalog ==
    /\ pc = "load_catalog"
    /\ resolveCalls' = resolveCalls + 1
    /\ CASE fault = "catalog:ModuleNotFoundError" -> Raise("ModuleNotFoundError", "metadata")
         [] fault = "catalog:Exception" -> Raise("Exception", "metadata")
         [] OTHER -> /\ pc' = "load_table"
                     /\ UNCHANGED <<findings, success>>
    /\ UNCHANGED <<inputs, idx, field_id_issues, exit_status, banner,
                   validateCalls, scanCalls>>

\* lines 46-55
LoadTable_Proceed ==
    /\ pc = "load_table"
    /\ CASE fault = "table:NoSuchTableError" ->
                /\ findings' = Emit(findings, <<ExceptHandler("NoSuchTableError", "metadata")>>)
                /\ pc' = "schema"
                /\ success' = success
         [] fault = "table:Exception" -> Raise("Exception", "metadata")
         [] OTHER ->
                /\ findings' = Emit(findings,
                       <<Finding("INFO", "metadata", "Loaded", format_version)>>
                       \o (IF FormatVersionMismatch(format_version)
                           THEN <<Finding("WARNING", "metadata", "FormatVersion", format_version)>>
                           ELSE <<>>))
                /\ pc' = "schema"
                /\ success' = success
    /\ UNCHANGED <<inputs, idx, field_id_issues, exit_status, banner,
                   validateCalls, resolveCalls, scanCalls>>
LoadTable_FormatFails ==
    /\ pc = "load_table"
    /\ CASE fault = "table:NoSuchTableError" -> Raise("NoSuchTableError", "metadata")
         [] fault = "table:Exception" -> Raise("Exception", "metadata")
         [] OTHER ->
                /\ findings' = Emit(findings,
                       <<Finding("INFO", "metadata", "Loaded", format_version)>>
                       \o (IF FormatVersionMismatch(format_version)
                           THEN <<Finding("WARNING", "metadata", "FormatVersion", format_version)>>
                           ELSE <<>>))
                /\ IF FormatVersionMismatch(format_version)
                   THEN Return(FALSE)
                   ELSE pc' = "schema" /\ success' = success
    /\ UNCHANGED <<inputs, idx, field_id_issues, exit_status, banner,
                   validateCalls, resolveCalls, scanCalls>>
LoadTable ==
    /\ pc = "load_table"
    /\ CASE fault = "table:NoSuchTableError" -> Raise("NoSuchTableError", "metadata")
         [] fault = "table:Exception" -> Raise("Exception", "metadata")
         [] OTHER ->
                /\ findings' = Emit(findings,
                       <<Finding("INFO", "metadata", "Loaded", format_version)>>
                       \o (IF FormatVersionMismatch(format_version)
                           THEN <<Finding("WARNING", "metadata", "FormatVersion", format_version)>>
                           ELSE <<>>))
                /\ pc' = "schema"
                /\ success' = success
    /\ UNCHANGED <<inputs, idx, field_id_issues, exit_status, banner,
                   validateCalls, resolveCalls, scanCalls>>

\* lines 58-63
SchemaHeader ==
    /\ pc = "schema"
    /\ findings' = Emit(findings, <<Finding("INFO", "schema", "SchemaSummary", Len(fields))>>)
    /\ field_id_issues' = FALSE
    /\ idx' = 1
    /\ pc' = "fields"
    /\ UNCHANGED <<inputs, success, exit_status, banner,
                   validateCalls, resolveCalls, scanCalls>>

\* lines 64-68: one iteration of the loop over schema.fields
FieldStep ==
    /\ pc = "fields"
    /\ idx <= Len(fields)
    /\ findings' = Emit(findings,
           <<Finding("INFO", "schema", "Field", fields[idx])>>
           \o (IF InvalidFieldId(fields[idx])
               THEN <<Finding("WARNING", "schema", "InvalidFieldId", fields[idx])>>
               ELSE <<>>))
    /\ field_id_issues' = (field_id_issues \/ InvalidFieldId(fields[idx]))
    /\ idx' = idx + 1
    /\ UNCHANGED <<inputs, pc, success, exit_status, banner,
                   validateCalls, resolveCalls, scanCalls>>

\* lines 70-72: after the loop
FieldsDone_NoReturn ==
    /\ pc = "fields"
    /\ idx > Len(fields)
    /\ IF field_id_issues
       THEN /\ findings' = Emit(findings, <<Finding("ERROR", "schema", "FieldIdIssues", 0)>>)
            /\ pc' = "snapshots"
            /\ success' = success
       ELSE /\ pc' = "snapshots"
            /\ UNCHANGED <<findings, success>>
    /\ UNCHANGED <<inputs, idx, field_id_issues, exit_status, banner,
                   validateCalls, resolveCalls, scanCalls>>
FieldsDone ==
    /\ pc = "fields"
    /\ idx > Len(fields)
    /\ IF field_id_issues
       THEN /\ findings' = Emit(findings, <<Finding("ERROR", "schema", "FieldIdIssues", 0)>>)
            /\ Return(FALSE)
       ELSE /\ pc' = "snapshots"
            /\ UNCHANGED <<findings, success>>
    /\ UNCHANGED <<inputs, idx, field_id_issues, exit_status, banner,
                   validateCalls, resolveCalls, scanCalls>>

\* lines 75-83
CheckSnapshots ==
    /\ pc = "snapshots"
    /\ findings' = Emit(findings,
           IF snapshots = 0
           THEN <<Finding("WARNING", "snapshot", "NoSnapshots", 0)>>
           ELSE <<Finding("INFO", "snapshot", "Snapshots", snapshots)>>
                \o [i \in 1 .. snapshots |-> Finding("INFO", "snapshot", "Snapshot", i)])
    /\ pc' = "current"
    /\ UNCHANGED <<inputs, idx, field_id_issues, success, exit_status, banner,
                   validateCalls, resolveCalls, scanCalls>>

\* lines 86-91 and 105-106
CheckCurrentSnapshot_AlwaysScan ==
    /\ pc = "current"
    /\ findings' = Emit(findings,
           <<Finding("INFO", "snapshot", "CurrentSnapshot", current_snapshot),
             Finding("INFO", "scan", "Scanning", 0)>>)
    /\ pc' = "scan"
    /\ UNCHANGED <<inputs, idx, field_id_issues, success, exit_status, banner,
                   validateCalls, resolveCalls, scanCalls>>
CheckCurrentSnapshot ==
    /\ pc = "current"
    /\ IF current_snapshot # None
       THEN /\ findings' = Emit(findings,
                   <<Finding("INFO", "snapshot", "CurrentSnapshot", current_snapshot),
                     Finding("INFO", "scan", "Scanning", 0)>>)
            /\ pc' = "scan"
       ELSE /\ findings' = Emit(findings,
                   <<Finding("WARNING", "snapshot", "NoCurrentSnapshot", 0)>>)
            /\ pc' = "additional"
    /\ UNCHANGED <<inputs, idx, field_id_issues, success, exit_status, banner,
                   validateCalls, resolveCalls, scanCalls>>

\* lines 92-104: what a scan that decoded prints
ScanFindings ==
    <<Finding("INFO", "scan", "Records", rows)>>
    \o (IF rows > 0
        THEN <<Finding("INFO", "scan", "Sample", IF rows < 5 THEN rows ELSE 5)>>
             \o [i \in 1 .. Len(fields) |-> Finding("INFO", "scan", "ColumnType", fields[i])]
        ELSE <<>>)

\* lines 92-104
Scan_Swallow ==
    /\ pc = "scan"
    /\ scanCalls' = scanCalls + 1
    /\ CASE fault = "scan:ModuleNotFoundError" -> Raise("ModuleNotFoundError", "scan")
         [] fault = "scan:Exception" ->
                /\ findings' = Emit(findings, <<ExceptHandler("Exception", "scan")>>)
                /\ pc' = "additional"
                /\ success' = success
         [] OTHER -> /\ findings' = Emit(findings, ScanFindings)
                     /\ pc' = "additional"
                     /\ success' = success
    /\ UNCHANGED <<inputs, idx, field_id_issues, exit_status, banner,
                   validateCalls, resolveCalls>>
Scan ==
    /\ pc = "scan"
    /\ scanCalls' = scanCalls + 1
    /\ CASE fault = "scan:ModuleNotFoundError" -> Raise("ModuleNotFoundError", "scan")
         [] fault = "scan:Exception" -> Raise("Exception", "scan")
         [] OTHER -> /\ findings' = Emit(findings, ScanFindings)
                     /\ pc' = "additional"
                     /\ success' = success
    /\ UNCHANGED <<inputs, idx, field_id_issues, exit_status, banner,
                   validateCalls, resolveCalls>>

\* lines 109-116
Additional ==
    /\ pc = "additional"
    /\ findings' = Emit(findings,
           <<Finding("INFO", "metadata", "AdditionalMetadata", 0),
             Finding("INFO", "summary", "Valid", 0)>>)
    /\ Return(TRUE)
    /\ UNCHANGED <<inputs, idx, field_id_issues, exit_status, banner,
                   validateCalls, resolveCalls, scanCalls>>

Next ==
    \/ UsageExit
    \/ CallValidate
    \/ CheckWarehouse
    \/ LoadCatalog
    \/ LoadTable
    \/ SchemaHeader
    \/ FieldStep
    \/ FieldsDone
    \/ CheckSnapshots
    \/ CheckCurrentSnapshot
    \/ Scan
    \/ Additional
    \/ MainFinish

Spec == Init /\ [][Next]_vars

TypeOK ==
    /\ pc \in {"main", "validate", "load_catalog", "load_table", "schema", "fields",
               "snapshots", "current", "scan", "additional", "returned", "exited"}
    /\ success \in BOOLEAN
    /\ exit_status \in {0 - 1, 0, 1}
    /\ banner \in {"none", "PASSED", "FAILED"}
    /\ idx \in 1 .. Len(fields) + 1

\* ------------------------------------------------------------ properties
\* validate_iceberg_table has been called and has returned
Done == validateCalls = 1 /\ pc \in {"returned", "exited"}

Count(kind) == Cardinality({i \in DOMAIN findings : findings[i].kind = kind})
CountRef(kind, ref) ==
    Cardinality({i \in DOMAIN findings : findings[i].kind = kind /\ findings[i].ref = ref})
CountSev(sev) == Cardinality({i \in DOMAIN findings : findings[i].sev = sev})
CountCat(cat) == Cardinality({i \in DOMAIN findings : findings[i].cat = cat})
FieldsWith(id) == Cardinality({i \in DOMAIN fields : fields[i] = id})

FieldIdWarned == \E i \in DOMAIN findings :
                    findings[i].sev = "WARNING" /\ findings[i].kind = "InvalidFieldId"
HasBadField == \E i \in DOMAIN fields : fields[i] <= 0
LoadFaults == {"catalog:ModuleNotFoundError", "catalog:Exception",
               "table:NoSuchTableError", "table:Exception"}
ScanFaults == {"scan:ModuleNotFoundError", "scan:Exception"}
TableResolves == warehouse_exists /\ fault \notin LoadFaults
Last(fs) == fs[Len(fs)]

PcRank ==
    CASE pc \in {"main", "validate", "load_catalog", "load_table"} -> 0
      [] pc = "schema" -> 1
      [] pc = "fields" -> 2
      [] pc = "snapshots" -> 3
      [] pc = "current" -> 4
      [] pc = "scan" -> 5
      [] pc = "additional" -> 6
      [] pc = "returned" -> 7
      [] pc = "exited" -> 8
CatRank(cat) ==
    CASE cat = "metadata" -> 1
      [] cat = "schema" -> 2
      [] cat = "snapshot" -> 3
      [] cat = "scan" -> 4
      [] cat = "summary" -> 5

\* C1: when validate_iceberg_table has returned, passed is true exactly when
\* no ERROR Finding and no field-ID WARNING was recorded; a format-version,
\* no-snapshots or no-current-snapshot WARNING alone leaves passed true.
C1_Verdict ==
    Done => (success <=> (CountSev("ERROR") = 0 /\ ~FieldIdWarned))
C1_Witness ==
    /\ Done /\ success
    /\ Count("FormatVersion") = 1 /\ Count("NoSnapshots") = 1 /\ Count("NoCurrentSnapshot") = 1

\* C2 as stated: in a run whose schema has a field with field_id <= 0 the
\* Snapshot Validator still runs (and the scan, when a current snapshot
\* exists) before the run is done.
C2_Original ==
    (Done /\ TableResolves /\ HasBadField)
        => /\ CountCat("snapshot") > 0
           /\ (current_snapshot # None => scanCalls = 1)
\* C2 amended: a field-ID WARNING does not stop the loop over the fields
\* (every field is still examined), but once the loop ends the run returns
\* failed at once: neither the Snapshot Validator nor the scan runs.
C2_Amended ==
    (Done /\ TableResolves /\ HasBadField)
        => /\ Count("Field") = Len(fields)
           /\ idx = Len(fields) + 1
           /\ CountCat("snapshot") = 0
           /\ CountCat("scan") = 0
           /\ scanCalls = 0
           /\ success = FALSE
C2_Witness ==
    /\ Done /\ TableResolves
    /\ Len(fields) = 2 /\ fields[1] <= 0
    /\ current_snapshot # None

\* C3 as stated: every field with field_id <= 0 gets a WARNING, every field
\* gets its INFO, passed is false, and no ERROR Finding is produced for the
\* field-ID condition.
C3_Original ==
    (Done /\ TableResolves)
        => /\ \A id \in FieldIdValues :
                /\ CountRef("Field", id) = FieldsWith(id)
                /\ CountRef("InvalidFieldId", id) = (IF id <= 0 THEN FieldsWith(id) ELSE 0)
           /\ HasBadField => (success = FALSE /\ CountSev("ERROR") = 0)
\* C3 amended: as stated, except that the field-ID condition does produce
\* one ERROR Finding: after the per-field Findings the run records the
\* "Field ID issues detected" error, and it is the last Finding.
C3_Amended ==
    (Done /\ TableResolves)
        => /\ \A id \in FieldIdValues :
                /\ CountRef("Field", id) = FieldsWith(id)
                /\ CountRef("InvalidFieldId", id) = (IF id <= 0 THEN FieldsWith(id) ELSE 0)
           /\ \A i \in DOMAIN findings :
                findings[i].kind = "InvalidFieldId" => findings[i].sev = "WARNING"
           /\ HasBadField =>
                /\ success = FALSE
                /\ CountSev("ERROR") = 1
                /\ Last(findings) = Finding("ERROR", "schema", "FieldIdIssues", 0)
C3_Witness ==
    /\ Done /\ TableResolves
    /\ Len(fields) = 2 /\ fields[1] > 0 /\ fields[2] = 0
    /\ Count("InvalidFieldId") = 1

\* C4: when the warehouse path does not exist the run ends with passed false
\* and exactly one ERROR Finding, for the missing path, and neither the
\* catalog, the schema check, the snapshot check nor the scan is executed.
C4_WarehouseMissing ==
    ~warehouse_exists
        => /\ resolveCalls = 0
           /\ scanCalls = 0
           /\ PcRank \in {0, 7, 8}
           /\ Done => /\ success = FALSE
                      /\ findings = <<Finding("ERROR", "metadata", "WarehouseMissing", 0)>>
C4_Witness == Done /\ ~warehouse_exists /\ Len(findings) = 1

\* C5: when resolving the table fails the run goes from START to DONE with
\* exactly one ERROR Finding of category metadata, passed false, and no
\* schema, snapshot or scan Finding; an absent table name is reported as such.
C5_LoadFailure ==
    (warehouse_exists /\ fault \in LoadFaults)
        => /\ PcRank \in {0, 7, 8}
           /\ scanCalls = 0
           /\ Done => /\ success = FALSE
                      /\ Len(findings) = 1
                      /\ findings[1].sev = "ERROR"
                      /\ findings[1].cat = "metadata"
                      /\ (fault = "table:NoSuchTableError"
                            => findings[1].kind = "TableNotFound")
C5_Witness ==
    /\ Done /\ warehouse_exists /\ fault = "table:NoSuchTableError"
    /\ resolveCalls = 1 /\ Len(findings) = 1

\* C6: the scan is invoked only if a current snapshot exists; with zero
\* snapshots or no current snapshot no scan is attempted, only WARNINGs are
\* recorded for that condition and passed is not made false by it.
C6_ScanOnlyWithCurrent ==
    /\ scanCalls > 0 => current_snapshot # None
    /\ pc = "scan" => current_snapshot # None
    /\ (Done /\ TableResolves /\ ~HasBadField /\ current_snapshot = None)
        => /\ scanCalls = 0
           /\ CountCat("scan") = 0
           /\ success = TRUE
           /\ CountSev("ERROR") = 0
           /\ Count("NoCurrentSnapshot") = 1
           /\ Count("NoSnapshots") = (IF snapshots = 0 THEN 1 ELSE 0)
           /\ \A i \in DOMAIN findings :
                findings[i].kind \in {"NoSnapshots", "NoCurrentSnapshot"}
                    => findings[i].sev = "WARNING"
C6_Witness ==
    /\ Done /\ TableResolves /\ ~HasBadField
    /\ snapshots = 0 /\ Count("NoSnapshots") = 1 /\ success

\* C7: when the scan raises, the run records one ERROR Finding for it and no
\* row count, sample, column type or success Finding, ends with passed false,
\* and every Finding recorded before the scan is kept unchanged and in order.
C7_ScanFailure ==
    /\ []((Done /\ scanCalls = 1 /\ fault \in ScanFaults)
            => /\ success = FALSE
               /\ CountSev("ERROR") = 1
               /\ Last(findings).sev = "ERROR"
               /\ Last(findings).cat = "scan"
               /\ Count("Records") = 0 /\ Count("Sample") = 0
               /\ Count("ColumnType") = 0 /\ Count("Valid") = 0
               /\ Count("AdditionalMetadata") = 0
               /\ Count("Loaded") = 1 /\ Count("SchemaSummary") = 1
               /\ Count("CurrentSnapshot") = 1)
    /\ [][(pc = "scan" /\ fault \in ScanFaults)
            => /\ Len(findings') = Len(findings) + 1
               /\ SubSeq(findings', 1, Len(findings)) = findings
               /\ pc' = "returned"]_vars
C7_Witness ==
    /\ Done /\ scanCalls = 1 /\ fault = "scan:Exception"
    /\ Len(findings) > 4

\* no schema Finding before the table is resolved, no snapshot Finding before
\* the schema check has finished, no scan Finding before the snapshot check
\* has finished
StageGuards ==
    /\ PcRank < 1 => CountCat("schema") = 0
    /\ PcRank < 3 => CountCat("snapshot") = 0
    /\ PcRank < 4 => CountCat("scan") = 0
Forward == [][PcRank' >= PcRank]_vars

\* C8 as stated: the states are passed in order with no way back, the
\* validators' Findings appear only after the earlier stage, and the report
\* is ordered metadata, schema, snapshot, scan.
C8_Original ==
    /\ [](/\ StageGuards
          /\ \A i, j \in DOMAIN findings :
                i < j => CatRank(findings[i].cat) <= CatRank(findings[j].cat))
    /\ Forward
\* C8 amended: as stated, except that a run that completes every validator
\* appends one more metadata Finding (the additional metadata) after the
\* snapshot and scan Findings, followed by the success summary.
C8_Amended ==
    /\ [](/\ StageGuards
          /\ \A i, j \in DOMAIN findings :
                i < j => \/ CatRank(findings[i].cat) <= CatRank(findings[j].cat)
                         \/ /\ findings[j].kind = "AdditionalMetadata"
                            /\ j = Len(findings) - 1
                            /\ Last(findings).kind = "Valid")
    /\ Forward
C8_Witness ==
    /\ Done /\ success /\ scanCalls = 1
    /\ Count("AdditionalMetadata") = 1 /\ CountCat("scan") > 1

\* C9: main exits with status 1 without calling validate_iceberg_table when
\* len(sys.argv) is not 3; otherwise it validates exactly once, exits 0
\* exactly when passed is true, and prints PASSED exactly when it exits 0.
C9_Main ==
    /\ validateCalls <= 1
    /\ pc = "exited"
        => IF argc # 3
           THEN validateCalls = 0 /\ exit_status = 1 /\ banner = "none"
                /\ findings = <<>>
           ELSE /\ validateCalls = 1
                /\ exit_status \in {0, 1}
                /\ exit_status = 0 <=> success
                /\ banner = "PASSED" <=> exit_status = 0
                /\ (CountSev("ERROR") > 0 \/ FieldIdWarned) => exit_status = 1
C9_Witness == pc = "exited" /\ argc = 3 /\ exit_status = 0 /\ banner = "PASSED"

\* C10: a format-version-2 table with only positive field ids, at least one
\* snapshot, an existing warehouse path, a resolvable name and data that
\* decodes ends with passed true and no ERROR Finding.
C10_ValidTable ==
    (/\ Done /\ warehouse_exists /\ fault = "none" /\ format_version = 2
     /\ snapshots >= 1 /\ \A i \in DOMAIN fields : fields[i] > 0)
        => success = TRUE /\ CountSev("ERROR") = 0
C10_Witness ==
    /\ Done /\ warehouse_exists /\ fault = "none" /\ format_version = 2
    /\ snapshots >= 1 /\ Len(fields) = 2 /\ fields[1] > 0 /\ fields[2] > 0
    /\ scanCalls = 1 /\ rows > 0 /\ success
====
